---- MODULE Spec2Model ----
(***************************************************************************)
(* gsbq: the Google Sheets -> BigQuery ETL script (src/gsbq/app.py) and    *)
(* the Airflow DAG that invokes it (src/airflow/dags/app.py).              *)
(*                                                                         *)
(* Three specifications share the module:                                  *)
(*   Spec            runs of the script against one spreadsheet and one    *)
(*                   BigQuery project; runs may overlap.                    *)
(*   SpecNormalizer  convert_data_to_dataframe followed by the schema loop *)
(*                   of create_table_if_not_exists, on every grid of a     *)
(*                   bounded set.                                          *)
(*   SpecMapper      the schema loop on data frames of every dtype.        *)
(***************************************************************************)
EXTENDS Integers, Sequences, FiniteSets, TLC

VARIABLES
    sheet,           \* the values of the spreadsheet range (a grid: rows of cells)
    datasetExists,   \* BigQuery: the dataset gsbq-demo.gsbq_dataset exists
    tableExists,     \* BigQuery: the table ...sample_table exists
    tableSchema,     \* BigQuery: the schema the table was created with
    tableRows,       \* BigQuery: the rows of the table, in load order
    pc,              \* per run: the statement of __main__ the run is at
    raw_data,        \* per run: the local raw_data
    processed_data,  \* per run: the local processed_data (a data frame)
    exc,             \* per run: the exception that ended it ("None" otherwise)
    calls,           \* per run: the remote calls it issued, with their outcome
    overlapped,      \* history: some run started while another was in progress
    step,            \* SpecNormalizer / SpecMapper: position of the function call
    data,            \* SpecNormalizer: the argument of convert_data_to_dataframe
    df,              \* SpecNormalizer / SpecMapper: the data frame
    schema           \* SpecNormalizer / SpecMapper: the list built by the schema loop

pipelineVars == <<sheet, datasetExists, tableExists, tableSchema, tableRows, pc,
                  raw_data, processed_data, exc, calls, overlapped>>
functionVars == <<step, data, df, schema>>
vars == <<sheet, datasetExists, tableExists, tableSchema, tableRows, pc,
          raw_data, processed_data, exc, calls, overlapped, step, data, df, schema>>

----------------------------------------------------------------------------
(* Bounds *)

\* Number of invocations of the script by the scheduler.
MaxRuns == 2

\* Number of data rows (below the header) of a grid given to the Normalizer.
MaxRows == 2

Runs == 1..MaxRuns

----------------------------------------------------------------------------
(* Values *)

\* Cell texts.  get_sheet_data passes no valueRenderOption, so the Sheets API
\* renders every cell as formatted text: every cell is a Python str.
IntegerText == {"1"}
DecimalText == {"9.5"}
OtherText   == {"Ann"}
CellTexts   == IntegerText \cup DecimalText \cup OtherText

ExampleHeader == <<"id", "name", "score">>
ExampleRow    == <<"1", "Ann", "9.5">>

\* Headers: the prefixes of the example header (names non-empty and distinct).
Headers == { SubSeq(ExampleHeader, 1, n) : n \in 1..Len(ExampleHeader) }

SeqsUpTo(S, n) == UNION { [1..k -> S] : k \in 0..n }

\* The grids given to the Normalizer: no rows at all, or a header followed by
\* at most MaxRows data rows, each with at most as many cells as the header
\* (the Sheets API omits trailing empty cells, so rows may be shorter).
GridsOver(headers) ==
    {<<>>} \cup
    UNION { { <<h>> \o rows : rows \in SeqsUpTo(SeqsUpTo(CellTexts, Len(h)), MaxRows) }
            : h \in headers }

\* Polars dtypes (a sample that covers every branch of the schema loop).
Dtypes == {"Int64", "Float64", "Boolean", "Datetime", "Date", "String", "Null", "Int32"}

\* A data frame: column names, a dtype per column, the values of each column.
\* exc # "None" stands for the exception raised in place of a frame.
Frame(names, dtypes, series) ==
    [exc |-> "None", columns |-> names, dtypes |-> dtypes, series |-> series]
Raised(e) ==
    [exc |-> e, columns |-> <<>>, dtypes |-> <<>>, series |-> <<>>]
NoFrame == Raised("Unset")

Width(f)  == Len(f.columns)
Height(f) == IF Len(f.series) = 0 THEN 0 ELSE Len(f.series[1])

\* The rows of a frame, as to_pandas hands them to the load job.
RowsOf(f) == [i \in 1..Height(f) |-> [j \in 1..Width(f) |-> f.series[j][i]]]

----------------------------------------------------------------------------
(* convert_data_to_dataframe: pl.DataFrame(data[1:], schema=data[0], orient="row") *)

\* The dtype polars infers for a column from its Python values.  A str is
\* String whatever its text: polars does not parse text into numbers.  A
\* column without values is Null.
InferDtype(values) == IF values = <<>> THEN "Null" ELSE "String"

\* The conversion as it would be if it asked for a first data row.
convert_requires_rows(d) ==
    IF Len(d) <= 1
    THEN Raised("IndexError")
    ELSE LET names == d[1]
             rows  == Tail(d)
             n     == Len(names)
             column(j) == [i \in 1..Len(rows) |-> rows[i][j]]
         IN  IF \E i \in 1..Len(rows) : Len(rows[i]) < n
             THEN Raised("ShapeError")
             ELSE Frame(names,
                        [j \in 1..n |-> InferDtype(column(j))],
                        [j \in 1..n |-> column(j)])

convert_data_to_dataframe(d) ==
    IF d = <<>>
    THEN Raised("IndexError")          \* data[0] of an empty list
    ELSE LET names == d[1]
             rows  == Tail(d)
             n     == Len(names)
             column(j) == [i \in 1..Len(rows) |-> rows[i][j]]
         IN  IF \E i \in 1..Len(rows) : Len(rows[i]) < n
             THEN Raised("ShapeError") \* polars: rows of unequal length
             ELSE Frame(names,
                        [j \in 1..n |-> InferDtype(column(j))],
                        [j \in 1..n |-> column(j)])

----------------------------------------------------------------------------
(* The schema loop of create_table_if_not_exists *)

\* The chain as it would be with Datetime tested so that it also takes Date.
FieldTypeDateAsDatetime(dtype) ==
    IF dtype = "Int64" THEN "INTEGER"
    ELSE IF dtype = "Float64" THEN "FLOAT"
    ELSE IF dtype = "Boolean" THEN "BOOLEAN"
    ELSE IF dtype \in {"Datetime", "Date"} THEN "DATETIME"
    ELSE "STRING"

FieldType(dtype) ==
    IF dtype = "Int64" THEN "INTEGER"
    ELSE IF dtype = "Float64" THEN "FLOAT"
    ELSE IF dtype = "Boolean" THEN "BOOLEAN"
    ELSE IF dtype = "Datetime" THEN "DATETIME"
    ELSE IF dtype = "Date" THEN "DATE"
    ELSE "STRING"

SchemaOf(f) ==
    [j \in 1..Len(f.columns) |-> [name |-> f.columns[j], type |-> FieldType(f.dtypes[j])]]

----------------------------------------------------------------------------
(* The function specifications *)

IdlePipeline ==
    /\ sheet = <<>>
    /\ datasetExists = FALSE
    /\ tableExists = FALSE
    /\ tableSchema = <<>>
    /\ tableRows = <<>>
    /\ pc = [r \in Runs |-> "NotStarted"]
    /\ raw_data = [r \in Runs |-> <<>>]
    /\ processed_data = [r \in Runs |-> NoFrame]
    /\ exc = [r \in Runs |-> "None"]
    /\ calls = [r \in Runs |-> <<>>]
    /\ overlapped = FALSE

\* Frames of every combination of dtypes (the values play no part in the loop).
Frames ==
    UNION { { Frame(h, dt, [j \in 1..Len(h) |-> <<>>]) : dt \in [1..Len(h) -> Dtypes] }
            : h \in Headers }

InitNormalizer ==
    /\ step = "call"
    /\ data \in GridsOver(Headers)
    /\ df = NoFrame
    /\ schema = <<>>
    /\ IdlePipeline

InitMapper ==
    /\ step = "frame"
    /\ data = <<>>
    /\ df \in Frames
    /\ schema = <<>>
    /\ IdlePipeline

\* processed_data = convert_data_to_dataframe(raw_data)
Convert ==
    /\ step = "call"
    /\ df' = convert_data_to_dataframe(data)
    /\ step' = IF df'.exc = "None" THEN "frame" ELSE "raised"
    /\ UNCHANGED <<data, schema>>
    /\ UNCHANGED pipelineVars

\* the loop over zip(df.columns, df.dtypes)
MapSchema ==
    /\ step = "frame"
    /\ schema' = SchemaOf(df)
    /\ step' = "schema"
    /\ UNCHANGED <<data, df>>
    /\ UNCHANGED pipelineVars

NextNormalizer == Convert \/ MapSchema
NextMapper == MapSchema

SpecNormalizer == InitNormalizer /\ [][NextNormalizer]_vars
SpecMapper == InitMapper /\ [][NextMapper]_vars

----------------------------------------------------------------------------
(* The pipeline: __main__ of src/gsbq/app.py, run by the DAG *)

\* The spreadsheets the runs read: each header alone, an empty range, the
\* example, a ragged row, two rows.
Sheets ==
    { <<h>> : h \in Headers } \cup
    { <<>>,
      <<ExampleHeader, ExampleRow>>,
      <<ExampleHeader, <<"1", "Ann">>>>,
      <<ExampleHeader, ExampleRow, <<"1", "1", "1">>>> }

\* A table that exists before the first run: its schema and its rows.
PriorSchema ==
    <<[name |-> "id", type |-> "INTEGER"], [name |-> "name", type |-> "STRING"],
      [name |-> "score", type |-> "FLOAT"]>>
PriorRow == <<"0", "Bob", "1.5">>

IdleFunction ==
    /\ step = "idle"
    /\ data = <<>>
    /\ df = NoFrame
    /\ schema = <<>>

Init ==
    /\ sheet \in Sheets
    /\ datasetExists \in BOOLEAN
    /\ tableExists \in BOOLEAN
    /\ tableExists => datasetExists
    /\ tableSchema = IF tableExists THEN PriorSchema ELSE <<>>
    /\ tableRows \in (IF tableExists THEN {<<>>, <<PriorRow>>} ELSE {<<>>})
    /\ pc = [r \in Runs |-> "NotStarted"]
    /\ raw_data = [r \in Runs |-> <<>>]
    /\ processed_data = [r \in Runs |-> NoFrame]
    /\ exc = [r \in Runs |-> "None"]
    /\ calls = [r \in Runs |-> <<>>]
    /\ overlapped = FALSE
    /\ IdleFunction

Terminal == {"Succeeded", "Failed"}
Active(r) == pc[r] \notin {"NotStarted"} \cup Terminal

Call(op, res) == [op |-> op, res |-> res]

\* The run goes on to statement `next`, having issued call c.
Goto(r, next, c) ==
    /\ pc' = [pc EXCEPT ![r] = next]
    /\ calls' = [calls EXCEPT ![r] = Append(@, c)]
    /\ UNCHANGED exc

\* An exception leaves __main__: the process exits, nothing after it runs.
Raise(r, e, c) ==
    /\ pc' = [pc EXCEPT ![r] = "Failed"]
    /\ exc' = [exc EXCEPT ![r] = e]
    /\ calls' = [calls EXCEPT ![r] = Append(@, c)]

UnchangedRemote == UNCHANGED <<sheet, datasetExists, tableExists, tableSchema, tableRows>>
UnchangedLocals == UNCHANGED <<raw_data, processed_data>>

\* The DAG's BashOperator starts the script (runs are numbered in start order).
Start(r) ==
    /\ pc[r] = "NotStarted"
    /\ r > 1 => pc[r - 1] # "NotStarted"
    /\ pc' = [pc EXCEPT ![r] = "Authenticating"]
    /\ overlapped' = (overlapped \/ \E q \in Runs : Active(q))
    /\ UNCHANGED <<exc, calls>>
    /\ UnchangedRemote /\ UnchangedLocals
    /\ UNCHANGED functionVars

authenticate(r) ==
    /\ pc[r] = "Authenticating"
    /\ \E ok \in BOOLEAN :
         IF ok THEN Goto(r, "Reading", Call("authenticate", "ok"))
         ELSE Raise(r, "AuthError", Call("authenticate", "Error"))
    /\ UNCHANGED overlapped
    /\ UnchangedRemote /\ UnchangedLocals
    /\ UNCHANGED functionVars

\* data.get("values", []): a range without values gives the empty list
get_sheet_data(r) ==
    /\ pc[r] = "Reading"
    /\ \E ok \in BOOLEAN :
         IF ok
         THEN /\ Goto(r, "Normalizing", Call("get_values", "ok"))
              /\ raw_data' = [raw_data EXCEPT ![r] = sheet]
         ELSE /\ Raise(r, "HttpError", Call("get_values", "Error"))
              /\ UNCHANGED raw_data
    /\ UNCHANGED <<processed_data, overlapped>>
    /\ UnchangedRemote
    /\ UNCHANGED functionVars

\* Normalize as it would be with the exception caught and the run going on.
NormalizeSwallowsError(r) ==
    /\ pc[r] = "Normalizing"
    /\ LET f == convert_data_to_dataframe(raw_data[r])
       IN  /\ processed_data' = [processed_data EXCEPT ![r] = f]
           /\ pc' = [pc EXCEPT ![r] = "GetDataset"]
           /\ UNCHANGED exc
    /\ UNCHANGED <<raw_data, calls, overlapped>>
    /\ UnchangedRemote
    /\ UNCHANGED functionVars

Normalize(r) ==
    /\ pc[r] = "Normalizing"
    /\ LET f == convert_data_to_dataframe(raw_data[r])
       IN  IF f.exc = "None"
           THEN /\ processed_data' = [processed_data EXCEPT ![r] = f]
                /\ pc' = [pc EXCEPT ![r] = "GetDataset"]
                /\ UNCHANGED exc
           ELSE /\ pc' = [pc EXCEPT ![r] = "Failed"]
                /\ exc' = [exc EXCEPT ![r] = f.exc]
                /\ UNCHANGED processed_data
    /\ UNCHANGED <<raw_data, calls, overlapped>>
    /\ UnchangedRemote
    /\ UNCHANGED functionVars

\* get_dataset as it would be with the result of the fetch ignored.
get_dataset_unchecked(r) ==
    /\ pc[r] = "GetDataset"
    /\ \E ok \in BOOLEAN :
         IF ~ok THEN Raise(r, "ApiError", Call("get_dataset", "Error"))
         ELSE Goto(r, "CreateDataset",
                   Call("get_dataset", IF datasetExists THEN "ok" ELSE "NotFound"))
    /\ UNCHANGED overlapped
    /\ UnchangedRemote /\ UnchangedLocals
    /\ UNCHANGED functionVars

\* client.get_dataset inside try / except NotFound
get_dataset(r) ==
    /\ pc[r] = "GetDataset"
    /\ \E ok \in BOOLEAN :
         IF ~ok THEN Raise(r, "ApiError", Call("get_dataset", "Error"))
         ELSE IF datasetExists THEN Goto(r, "GetTable", Call("get_dataset", "ok"))
         ELSE Goto(r, "CreateDataset", Call("get_dataset", "NotFound"))
    /\ UNCHANGED overlapped
    /\ UnchangedRemote /\ UnchangedLocals
    /\ UNCHANGED functionVars

\* client.create_dataset in the except branch (exists_ok is not passed)
create_dataset(r) ==
    /\ pc[r] = "CreateDataset"
    /\ \E ok \in BOOLEAN :
         IF ~ok
         THEN /\ Raise(r, "ApiError", Call("create_dataset", "Error"))
              /\ UNCHANGED datasetExists
         ELSE IF datasetExists
         THEN /\ Raise(r, "Conflict", Call("create_dataset", "Conflict"))
              /\ UNCHANGED datasetExists
         ELSE /\ Goto(r, "GetTable", Call("create_dataset", "ok"))
              /\ datasetExists' = TRUE
    /\ UNCHANGED <<sheet, tableExists, tableSchema, tableRows, overlapped>>
    /\ UnchangedLocals
    /\ UNCHANGED functionVars

\* get_table as it would be under a bare except: every error taken for not found.
get_table_bare_except(r) ==
    /\ pc[r] = "GetTable"
    /\ \E ok \in BOOLEAN :
         IF ~ok THEN Goto(r, "CreateTable", Call("get_table", "Error"))
         ELSE IF tableExists THEN Goto(r, "Loading", Call("get_table", "ok"))
         ELSE Goto(r, "CreateTable", Call("get_table", "NotFound"))
    /\ UNCHANGED overlapped
    /\ UnchangedRemote /\ UnchangedLocals
    /\ UNCHANGED functionVars

\* client.get_table inside try / except NotFound
get_table(r) ==
    /\ pc[r] = "GetTable"
    /\ \E ok \in BOOLEAN :
         IF ~ok THEN Raise(r, "ApiError", Call("get_table", "Error"))
         ELSE IF tableExists THEN Goto(r, "Loading", Call("get_table", "ok"))
         ELSE Goto(r, "CreateTable", Call("get_table", "NotFound"))
    /\ UNCHANGED overlapped
    /\ UnchangedRemote /\ UnchangedLocals
    /\ UNCHANGED functionVars

\* create_table as it would be with exists_ok=True.
create_table_exists_ok(r) ==
    /\ pc[r] = "CreateTable"
    /\ \E ok \in BOOLEAN :
         IF ~ok
         THEN /\ Raise(r, "ApiError", Call("create_table", "Error"))
              /\ UNCHANGED <<tableExists, tableSchema>>
         ELSE /\ Goto(r, "Loading", Call("create_table", "ok"))
              /\ tableExists' = TRUE
              /\ tableSchema' = IF tableExists THEN tableSchema
                                ELSE SchemaOf(processed_data[r])
    /\ UNCHANGED <<sheet, datasetExists, tableRows, overlapped>>
    /\ UnchangedLocals
    /\ UNCHANGED functionVars

\* client.create_table(bigquery.Table(table_id, schema=schema))
create_table(r) ==
    /\ pc[r] = "CreateTable"
    /\ \E ok \in BOOLEAN :
         IF ~ok
         THEN /\ Raise(r, "ApiError", Call("create_table", "Error"))
              /\ UNCHANGED <<tableExists, tableSchema>>
         ELSE IF tableExists
         THEN /\ Raise(r, "Conflict", Call("create_table", "Conflict"))
              /\ UNCHANGED <<tableExists, tableSchema>>
         ELSE /\ Goto(r, "Loading", Call("create_table", "ok"))
              /\ tableExists' = TRUE
              /\ tableSchema' = SchemaOf(processed_data[r])
    /\ UNCHANGED <<sheet, datasetExists, tableRows, overlapped>>
    /\ UnchangedLocals
    /\ UNCHANGED functionVars

\* client.load_table_from_dataframe(dataframe.to_pandas(), table_id, job_config)
load_table_from_dataframe(r) ==
    /\ pc[r] = "Loading"
    /\ \E ok \in BOOLEAN :
         IF ok THEN Goto(r, "Waiting", Call("load", "ok"))
         ELSE Raise(r, "ApiError", Call("load", "Error"))
    /\ UNCHANGED overlapped
    /\ UnchangedRemote /\ UnchangedLocals
    /\ UNCHANGED functionVars

\* What write_disposition WRITE_TRUNCATE would leave.
WriteTruncate(rows, f) == RowsOf(f)

\* What a finished load job with write_disposition WRITE_APPEND leaves in the table.
WriteAppend(rows, f) == rows \o RowsOf(f)

\* job.result(): the load job ends; a failed job loads nothing.
job_result(r) ==
    /\ pc[r] = "Waiting"
    /\ \E ok \in BOOLEAN :
         IF ok
         THEN /\ Goto(r, "Succeeded", Call("result", "ok"))
              /\ tableRows' = WriteAppend(tableRows, processed_data[r])
         ELSE /\ Raise(r, "LoadJobError", Call("result", "Error"))
              /\ UNCHANGED tableRows
    /\ UNCHANGED <<sheet, datasetExists, tableExists, tableSchema, overlapped>>
    /\ UnchangedLocals
    /\ UNCHANGED functionVars

Next ==
    \/ \E r \in Runs : Start(r)
    \/ \E r \in Runs : authenticate(r)
    \/ \E r \in Runs : get_sheet_data(r)
    \/ \E r \in Runs : Normalize(r)
    \/ \E r \in Runs : get_dataset(r)
    \/ \E r \in Runs : create_dataset(r)
    \/ \E r \in Runs : get_table(r)
    \/ \E r \in Runs : create_table(r)
    \/ \E r \in Runs : load_table_from_dataframe(r)
    \/ \E r \in Runs : job_result(r)

Spec == Init /\ [][Next]_vars

----------------------------------------------------------------------------
(* Helpers of the properties *)

Ops(r) == { calls[r][i].op : i \in 1..Len(calls[r]) }
LastCall(r) == calls[r][Len(calls[r])]
Issued(r, c) == \E i \in 1..Len(calls[r]) : calls[r][i] = c

\* The order of the remote calls in __main__.
OpRank(op) ==
    CASE op = "authenticate" -> 1
      [] op = "get_values" -> 2
      [] op = "get_dataset" -> 3
      [] op = "create_dataset" -> 4
      [] op = "get_table" -> 5
      [] op = "create_table" -> 6
      [] op = "load" -> 7
      [] op = "result" -> 8

\* The stage of the run's state machine a statement belongs to.
Stage(p) ==
    CASE p \in {"GetDataset", "CreateDataset", "GetTable", "CreateTable"} -> "Provisioning"
      [] p \in {"Loading", "Waiting"} -> "Loading"
      [] OTHER -> p

StageRank(st) ==
    CASE st = "NotStarted" -> 0
      [] st = "Authenticating" -> 1
      [] st = "Reading" -> 2
      [] st = "Normalizing" -> 3
      [] st = "Provisioning" -> 4
      [] st = "Loading" -> 5
      [] st = "Succeeded" -> 6
      [] st = "Failed" -> 7

RemoteUnchanged ==
    /\ datasetExists' = datasetExists
    /\ tableExists' = tableExists
    /\ tableSchema' = tableSchema
    /\ tableRows' = tableRows

\* The run failed inside convert_data_to_dataframe.
NormalizerFailed(r) ==
    /\ pc[r] = "Failed"
    /\ calls[r] # <<>>
    /\ LastCall(r) = Call("get_values", "ok")

----------------------------------------------------------------------------
(* C1 *)

\* One step of run r respects the state machine of a run.
C1_Step(r) ==
    \* stages are entered in order, one at a time, or the run fails
    /\ pc'[r] # pc[r] =>
         \/ pc'[r] = "Failed"
         \/ StageRank(Stage(pc'[r])) = StageRank(Stage(pc[r])) + 1
         \/ /\ Stage(pc'[r]) = Stage(pc[r])
            /\ <<pc[r], pc'[r]>> \in { <<"GetDataset", "CreateDataset">>,
                                       <<"GetDataset", "GetTable">>,
                                       <<"CreateDataset", "GetTable">>,
                                       <<"GetTable", "CreateTable">>,
                                       <<"Loading", "Waiting">> }
    \* an error moves the run to Failed, and only an error does
    /\ exc'[r] # exc[r] => pc'[r] = "Failed" /\ pc[r] # "Failed"
    /\ (pc'[r] = "Failed" /\ pc[r] # "Failed") => exc'[r] # "None"
    \* Failed and Succeeded are terminal: nothing is executed after them
    /\ pc[r] \in Terminal =>
         pc'[r] = pc[r] /\ calls'[r] = calls[r] /\ exc'[r] = exc[r]

\* What the calls a run has issued look like in every state.
C1_Calls(r) ==
    \* the remote calls are issued in the order of __main__
    /\ \A i, j \in 1..Len(calls[r]) :
         i < j => OpRank(calls[r][i].op) < OpRank(calls[r][j].op)
    \* no call follows a call that raised
    /\ \A i \in 1..Len(calls[r]) :
         calls[r][i].res \in {"Error", "Conflict"} => i = Len(calls[r]) /\ pc[r] = "Failed"
    \* Succeeded only after the load job ended successfully
    /\ pc[r] = "Succeeded" =>
         /\ LastCall(r) = Call("result", "ok")
         /\ {"authenticate", "get_values", "get_dataset", "get_table", "load"} \subseteq Ops(r)
    /\ pc[r] = "Failed" <=> exc[r] # "None"
    \* a stage runs only on what the stage before it produced
    /\ Stage(pc[r]) \in {"Provisioning", "Loading", "Succeeded"} =>
         /\ Issued(r, Call("get_values", "ok"))
         /\ processed_data[r].exc = "None"

\* C1: a run passes through Authenticating, Reading, Normalizing, Provisioning
\* (dataset before table), Loading, Succeeded in that order; an error of any
\* stage moves it to Failed; Failed is terminal and no create or load call is
\* issued after an earlier stage failed; Succeeded is reached only after the
\* load job completed successfully.
C1_RunStateMachine ==
    /\ [][\A r \in Runs : C1_Step(r)]_vars
    /\ [](\A r \in Runs : C1_Calls(r))

\* One run created the dataset and the table and succeeded; another failed at
\* the table fetch.
C1_Witness ==
    \E r, q \in Runs :
        /\ pc[r] = "Succeeded"
        /\ Issued(r, Call("create_dataset", "ok"))
        /\ Issued(r, Call("create_table", "ok"))
        /\ pc[q] = "Failed"
        /\ exc[q] = "ApiError"
        /\ Issued(q, Call("get_table", "Error"))

----------------------------------------------------------------------------
(* C2 *)

\* C2: a successful load is strictly additive: the table holds its N former
\* rows, unaltered and in place, followed by the M rows of the frame, which
\* are the data rows of the grid the run read (so a re-run on an unchanged
\* sheet appends the whole grid again); no step ever updates or deletes a row.
C2_LoadIsAdditive ==
    [][ /\ \A r \in Runs :
             (pc[r] = "Waiting" /\ pc'[r] = "Succeeded") =>
                 /\ Len(tableRows') = Len(tableRows) + Height(processed_data[r])
                 /\ SubSeq(tableRows', 1, Len(tableRows)) = tableRows
                 /\ SubSeq(tableRows', Len(tableRows) + 1, Len(tableRows')) = Tail(raw_data[r])
        /\ Len(tableRows') >= Len(tableRows)
        /\ SubSeq(tableRows', 1, Len(tableRows)) = tableRows
      ]_vars

\* Two runs loaded the same two-row sheet after a row that was there before.
C2_Witness ==
    /\ \A r \in Runs : pc[r] = "Succeeded"
    /\ Len(sheet) = 3
    /\ tableRows = <<PriorRow>> \o Tail(sheet) \o Tail(sheet)

----------------------------------------------------------------------------
(* C3 *)

C3_Step(r) ==
    /\ (pc[r] = "GetDataset" /\ datasetExists /\ pc'[r] # pc[r]) =>
         /\ RemoteUnchanged
         /\ pc'[r] # "CreateDataset"
         /\ pc'[r] = "Failed" => calls'[r][Len(calls'[r])] = Call("get_dataset", "Error")
    /\ (pc[r] = "GetTable" /\ tableExists /\ pc'[r] # pc[r]) =>
         /\ RemoteUnchanged
         /\ pc'[r] # "CreateTable"
         /\ pc'[r] = "Failed" => calls'[r][Len(calls'[r])] = Call("get_table", "Error")

C3_State ==
    /\ \A r \in Runs :
         /\ Issued(r, Call("get_dataset", "ok")) => "create_dataset" \notin Ops(r)
         /\ Issued(r, Call("get_table", "ok")) => "create_table" \notin Ops(r)
    /\ ~overlapped =>
         /\ \A r \in Runs : exc[r] # "Conflict"
         /\ Cardinality({ r \in Runs : Issued(r, Call("create_dataset", "ok")) }) <= 1
         /\ Cardinality({ r \in Runs : Issued(r, Call("create_table", "ok")) }) <= 1

\* C3: provisioning is idempotent: a fetch that finds the dataset (the table)
\* is followed by no create call, leaves dataset, table, schema and rows as
\* they are and raises nothing (the run fails there only if the fetch itself
\* failed); over runs that do not overlap no create ever meets an existing
\* resource and each resource is created at most once.
C3_ProvisioningIdempotent ==
    /\ [][\A r \in Runs : C3_Step(r)]_vars
    /\ []C3_State

\* Every run, one after the other, found both resources and went on to load.
C3_Witness ==
    /\ ~overlapped
    /\ \A r \in Runs :
         /\ pc[r] = "Succeeded"
         /\ Issued(r, Call("get_dataset", "ok"))
         /\ Issued(r, Call("get_table", "ok"))
    /\ tableSchema = PriorSchema

----------------------------------------------------------------------------
(* C4 *)

C4_Step(r) ==
    /\ (pc[r] = "GetDataset" /\ pc'[r] # pc[r]) =>
         LET c == calls'[r][Len(calls'[r])]
         IN  /\ RemoteUnchanged
             /\ c.op = "get_dataset"
             /\ c.res = "NotFound" => ~datasetExists /\ pc'[r] = "CreateDataset"
             /\ c.res = "ok" => datasetExists /\ pc'[r] = "GetTable"
             /\ c.res = "Error" => pc'[r] = "Failed"
    /\ (pc[r] = "GetTable" /\ pc'[r] # pc[r]) =>
         LET c == calls'[r][Len(calls'[r])]
         IN  /\ RemoteUnchanged
             /\ c.op = "get_table"
             /\ c.res = "NotFound" => ~tableExists /\ pc'[r] = "CreateTable"
             /\ c.res = "ok" => tableExists /\ pc'[r] = "Loading"
             /\ c.res = "Error" => pc'[r] = "Failed"
    /\ (pc[r] = "CreateDataset" /\ pc'[r] = "GetTable") =>
         /\ ~datasetExists /\ datasetExists'
         /\ UNCHANGED <<tableExists, tableSchema, tableRows>>
    /\ (pc[r] = "CreateTable" /\ pc'[r] = "Loading") =>
         /\ ~tableExists /\ tableExists'
         /\ Len(tableSchema') = Width(processed_data[r])
         /\ \A j \in 1..Len(tableSchema') :
              /\ tableSchema'[j].name = processed_data[r].columns[j]
              /\ tableSchema'[j].type = FieldType(processed_data[r].dtypes[j])
         /\ UNCHANGED <<datasetExists, tableRows>>

C4_State(r) ==
    LET n == Len(calls[r])
        FetchCreate(fetch, create, atCreate) ==
            /\ \A i \in 1..n : calls[r][i].op = create =>
                 i > 1 /\ calls[r][i - 1] = Call(fetch, "NotFound")
            /\ \A i \in 1..n : calls[r][i] = Call(fetch, "NotFound") =>
                 IF i = n THEN pc[r] = atCreate ELSE calls[r][i + 1].op = create
            /\ Cardinality({ i \in 1..n : calls[r][i].op = create }) <= 1
            /\ \A i \in 1..n : calls[r][i] = Call(fetch, "Error") =>
                 i = n /\ pc[r] = "Failed"
    IN  /\ FetchCreate("get_dataset", "create_dataset", "CreateDataset")
        /\ FetchCreate("get_table", "create_table", "CreateTable")

\* C4: the Provisioner fetches the dataset, then the table.  A fetch that
\* reports not found is followed by exactly one create of that resource (the
\* table with the schema mapped from the frame), and a create is issued only
\* then; a fetch that fails otherwise ends the run Failed with no create
\* issued and the remote state unchanged.
C4_FetchThenCreate ==
    /\ [][\A r \in Runs : C4_Step(r)]_vars
    /\ [](\A r \in Runs : C4_State(r))

\* One run met a failing dataset fetch; another found nothing and created both
\* resources, the table with the schema of its frame.
C4_Witness ==
    \E r, q \in Runs :
        /\ Issued(q, Call("get_dataset", "Error"))
        /\ Issued(r, Call("get_dataset", "NotFound"))
        /\ Issued(r, Call("create_dataset", "ok"))
        /\ Issued(r, Call("get_table", "NotFound"))
        /\ Issued(r, Call("create_table", "ok"))
        /\ tableSchema = SchemaOf(processed_data[r])
        /\ Len(tableSchema) = 3

----------------------------------------------------------------------------
(* C10 *)

\* C10 as stated: the check-then-create race is benign: neither run ends
\* Failed because of the duplicate create.
C10_RaceIsBenign ==
    \A r \in Runs : exc[r] # "Conflict"

C10_Step(r) ==
    /\ (pc[r] = "CreateDataset" /\ datasetExists /\ pc'[r] # pc[r]) =>
         /\ RemoteUnchanged
         /\ pc'[r] = "Failed"
         /\ calls'[r][Len(calls'[r])].res \in {"Conflict", "Error"}
    /\ (pc[r] = "CreateTable" /\ tableExists /\ pc'[r] # pc[r]) =>
         /\ RemoteUnchanged
         /\ pc'[r] = "Failed"
         /\ calls'[r][Len(calls'[r])].res \in {"Conflict", "Error"}

C10_State ==
    /\ \A op \in {"create_dataset", "create_table"} :
         /\ Cardinality({ r \in Runs : Issued(r, Call(op, "ok")) }) <= 1
         /\ \A r \in Runs : Issued(r, Call(op, "Conflict")) =>
              /\ overlapped
              /\ pc[r] = "Failed" /\ exc[r] = "Conflict"
              /\ "load" \notin Ops(r)
              /\ \E q \in Runs \ {r} : Issued(q, Call(op, "ok"))
    /\ (\E r \in Runs : Issued(r, Call("create_dataset", "ok"))) => datasetExists
    /\ (\E r \in Runs : Issued(r, Call("create_table", "ok"))) => tableExists

\* C10 (amended): runs that overlap can both find a resource absent and both
\* issue its create.  The resource is created once: the create that comes
\* second changes nothing remotely and raises Conflict, which ends that run
\* Failed before it submits a load job; the run that created is not affected.
C10_RaceCreatesOnce ==
    /\ [][\A r \in Runs : C10_Step(r)]_vars
    /\ []C10_State

\* Two runs found the table absent; one created it, the other's create raised.
C10_Witness ==
    \E r, q \in Runs :
        /\ r # q
        /\ Issued(r, Call("get_table", "NotFound"))
        /\ Issued(q, Call("get_table", "NotFound"))
        /\ Issued(r, Call("create_table", "ok"))
        /\ pc[r] = "Succeeded"
        /\ exc[q] = "Conflict"

----------------------------------------------------------------------------
(* C5 *)

\* The error kind of the design an exception of the script stands for
\* (IndexError is what data[0] raises on a grid without rows).
ErrorKind(e) ==
    CASE e = "AuthError" -> "AuthenticationError"
      [] e = "HttpError" -> "SourceUnavailableError"
      [] e = "IndexError" -> "EmptySourceError"
      [] e \in {"ApiError", "Conflict"} -> "ProvisioningError"
      [] e = "LoadJobError" -> "LoadJobError"
      [] OTHER -> "Unclassified"

\* C5 as stated: the Normalizer fails on the grid without rows, with
\* EmptySourceError, and on no other grid; the run then ends Failed with
\* nothing created and no load job submitted.
C5_OnlyEmptyGridFails ==
    \A r \in Runs :
        (Issued(r, Call("get_values", "ok")) /\ pc[r] # "Normalizing") =>
            /\ NormalizerFailed(r) <=> raw_data[r] = <<>>
            /\ NormalizerFailed(r) =>
                 /\ ErrorKind(exc[r]) = "EmptySourceError"
                 /\ Ops(r) = {"authenticate", "get_values"}

----------------------------------------------------------------------------
(* C6 *)

ColumnValues(f, j) == { f.series[j][i] : i \in 1..Len(f.series[j]) }

\* C6 as stated: a column of integer texts is typed integer, one where a value
\* needs a decimal point floating-point, one with other text string; the
\* example grid maps to [(id,INTEGER),(name,STRING),(score,FLOAT)].
C6_TypesInferredFromValues ==
    /\ step \in {"frame", "schema"} =>
         \A j \in 1..Width(df) :
             LET vals == ColumnValues(df, j)
             IN  vals # {} =>
                   /\ vals \subseteq IntegerText => df.dtypes[j] = "Int64"
                   /\ (vals \subseteq IntegerText \cup DecimalText /\ vals \cap DecimalText # {})
                        => df.dtypes[j] = "Float64"
                   /\ vals \cap OtherText # {} => df.dtypes[j] = "String"
    /\ (step = "schema" /\ data = <<ExampleHeader, ExampleRow>>) => schema = PriorSchema

----------------------------------------------------------------------------
(* C7 *)

\* The mapping of the design.
ExpectedFieldType(dtype) ==
    CASE dtype = "Int64" -> "INTEGER"
      [] dtype = "Float64" -> "FLOAT"
      [] dtype = "Boolean" -> "BOOLEAN"
      [] dtype = "Datetime" -> "DATETIME"
      [] dtype = "Date" -> "DATE"
      [] OTHER -> "STRING"

\* C7: the schema loop never fails and yields one (name, type) field per
\* column, in column order and with the column's name, the type being
\* INTEGER, FLOAT, BOOLEAN, DATETIME, DATE for integer, floating-point,
\* boolean, datetime, date and STRING for every other dtype.
C7_SchemaMapperTotal ==
    /\ step \in {"frame", "schema"}
    /\ step = "frame" => ENABLED MapSchema
    /\ step = "schema" =>
         /\ Len(schema) = Len(df.columns)
         /\ \A j \in 1..Len(schema) :
              /\ schema[j].name = df.columns[j]
              /\ schema[j].type = ExpectedFieldType(df.dtypes[j])

\* The loop ran on a frame with a date, a datetime and an unmapped dtype.
C7_Witness ==
    /\ step = "schema"
    /\ df.dtypes = <<"Date", "Datetime", "Int32">>
    /\ schema[3].type = "STRING"

----------------------------------------------------------------------------
(* C8 *)

HeaderOnly(r) == Len(raw_data[r]) = 1

C8_State(r) ==
    (HeaderOnly(r) /\ pc[r] # "Normalizing") =>
        /\ ~NormalizerFailed(r)
        /\ processed_data[r].exc = "None"
        /\ processed_data[r].columns = raw_data[r][1]
        /\ Len(processed_data[r].series) = Len(raw_data[r][1])
        /\ \A j \in 1..Len(processed_data[r].series) : processed_data[r].series[j] = <<>>
        /\ Height(processed_data[r]) = 0
        /\ Len(SchemaOf(processed_data[r])) = Len(raw_data[r][1])
        \* only a remote call that raised fails the run
        /\ pc[r] = "Failed" => LastCall(r).res \in {"Error", "Conflict"}

C8_Step(r) ==
    /\ (HeaderOnly(r) /\ pc[r] = "CreateTable" /\ pc'[r] = "Loading") =>
         Len(tableSchema') = Len(raw_data[r][1])
    /\ (HeaderOnly(r) /\ pc[r] = "Waiting" /\ pc'[r] = "Succeeded") =>
         tableRows' = tableRows

\* C8: a grid that is a non-empty header and no data rows gives a frame with
\* the header's columns in order and no rows, and a schema of the header's
\* arity; the run is failed by nothing but a remote call that raises, and its
\* load job appends no row: the table's rows are as before.
C8_HeaderOnlyGrid ==
    /\ [][\A r \in Runs : C8_Step(r)]_vars
    /\ [](\A r \in Runs : C8_State(r))

\* A run on a two-column header alone succeeded; the table holds what it held.
C8_Witness ==
    \E r \in Runs :
        /\ pc[r] = "Succeeded"
        /\ raw_data[r] = <<<<"id", "name">>>>
        /\ Issued(r, Call("create_table", "ok"))
        /\ Len(tableSchema) = 2
        /\ tableRows = <<>>

----------------------------------------------------------------------------
(* C9 *)

Ragged(d) == Len(d) >= 2 /\ \E i \in 2..Len(d) : Len(d[i]) < Len(d[1])

EmptyValues == {"", "None"}

\* C9 as stated: a grid with a data row shorter than the header does not make
\* the Normalizer fail: the frame has one entry per data row in every column
\* and the missing trailing cells are empty values.
C9_RaggedRowsTolerated ==
    (step # "call" /\ Ragged(data)) =>
        /\ step # "raised"
        /\ df.exc = "None"
        /\ \A j \in 1..Len(data[1]) :
             /\ Len(df.series[j]) = Len(data) - 1
             /\ \A i \in 1..(Len(data) - 1) :
                  j > Len(data[i + 1]) => df.series[j][i] \in EmptyValues

====
